---- MODULE Spec2Model ----
(***************************************************************************)
(* Order creation and pricing, payment-webhook reconciliation and the      *)
(* top-ranking aggregation of the Vechnost backend (src/main.py), over the *)
(* order / product / paymentmethod collections of the document store.      *)
(*                                                                         *)
(* Money is counted in mills (1/1000 of a currency unit) so that a float   *)
(* price with a sub-cent fraction is representable; round(x, 2) rounds to  *)
(* a multiple of 10 mills.  An ObjectId is a natural number; its string    *)
(* form is OidLen lower-case hex digits (24 in bson, scaled down here).    *)
(* A request is served by a worker; a handler is cut into steps at its     *)
(* database operations, which is where requests interleave.                *)
(***************************************************************************)
EXTENDS Integers, Sequences, FiniteSets, TLC

VARIABLES products, methods, orders, clock, pc, req, loc, out

vars == <<products, methods, orders, clock, pc, req, loc, out>>

\* ------------------------------------------------------------------ bounds
OidLen == 2
\* the concurrent specification
MaxOrders == 2
MaxClock == 3
\* the sequential specification
MaxSeqOrders == 2
MaxSeqClock == 3
\* the pricing specification
MaxPricedOrders == 1
MaxAmount == 2
\* the ranking specification
MaxRankOrders == 8
MaxRankUpdates == 1
MaxLimit == 2

Workers == {1, 2}

\* ------------------------------------------------------- python values
None == "<None>"

Truthy(s) == s /= None /\ s /= ""

PyOr(a, b) == IF Truthy(a) THEN a ELSE b

\* ------------------------------------------------------------ ObjectId
LowerHex == "0123456789abcdef"
UpperHex == "0123456789ABCDEF"

CharAt(s, i) == SubSeq(s, i, i)

LowerDigits == [v \in 1..16 |-> CharAt(LowerHex, v)]
UpperDigits == [v \in 1..16 |-> CharAt(UpperHex, v)]

HexChars == {LowerDigits[v] : v \in 1..16} \cup {UpperDigits[v] : v \in 1..16}

\* the value of a hex digit of either case
HexValue == [c \in HexChars |-> (CHOOSE v \in 1..16 : c = LowerDigits[v] \/ c = UpperDigits[v]) - 1]

IsHexChar(c) == c \in HexChars

HexVal(c) == HexValue[c]

ObjectIdIsValid(s) ==
    /\ s /= None
    /\ Len(s) = OidLen
    /\ \A i \in 1..OidLen : IsHexChar(CharAt(s, i))

RECURSIVE ParseHex(_, _)
ParseHex(s, n) == IF n = 0 THEN 0 ELSE 16 * ParseHex(s, n - 1) + HexVal(CharAt(s, n))

\* ObjectId(s): the id a valid string denotes
ObjectId(s) == ParseHex(s, OidLen)

RECURSIVE ToHex(_, _)
ToHex(n, k) == IF k = 0 THEN "" ELSE ToHex(n \div 16, k - 1) \o LowerDigits[(n % 16) + 1]

\* str(ObjectId)
OidStr(n) == ToHex(n, OidLen)

\* oid(s): the parsed id, or the 400 "Invalid id" it raises
oid(s) == IF ObjectIdIsValid(s) THEN [ok |-> TRUE, id |-> ObjectId(s)]
          ELSE [ok |-> FALSE, id |-> 0]

\* --------------------------------------------------------------- money
MillsPerUnit == 1000
MillsPerCent == MillsPerUnit \div 100

Money(units) == units * MillsPerUnit

\* base + base * fee_percent / 100.0 + fee_flat, as whole mills m and a
\* remainder of r hundredths of a mill
TotalWithFee(base, fee_percent, fee_flat) ==
    [m |-> base + (base * fee_percent) \div 100 + fee_flat,
     r |-> (base * fee_percent) % 100]

TotalNoFee(base) == [m |-> base, r |-> 0]

\* round(total, 2): the nearest multiple of a cent.  A value that lies at a
\* decimal half-cent has a binary float on either side of it, so both
\* neighbours are outcomes there.
Round2(t) ==
    LET fl  == t.m - (t.m % MillsPerCent)
        sub == (t.m % MillsPerCent) * 100 + t.r
        half == (MillsPerCent * 100) \div 2
    IN  IF sub < half THEN {fl}
        ELSE IF sub > half THEN {fl + MillsPerCent}
        ELSE {fl, fl + MillsPerCent}

\* ------------------------------------------------------------ the store
\* find_one: the first document in natural order that matches, or None
FirstIndex(coll, Match(_)) ==
    IF \E i \in 1..Len(coll) : Match(coll[i])
    THEN CHOOSE i \in 1..Len(coll) : Match(coll[i]) /\ \A j \in 1..(i - 1) : ~Match(coll[j])
    ELSE 0

\* mutant: the filter is dropped and the first product is found
FindAnyProduct(id) == IF Len(products) > 0 THEN 1 ELSE 0

FindProductById(id) ==
    LET M(d) == d._id = id IN FirstIndex(products, M)

\* mutant: inactive methods are found too
FindMethodActiveOrNot(code) ==
    LET M(d) == d.code = code IN FirstIndex(methods, M)

FindActiveMethod(code) ==
    LET M(d) == d.code = code /\ d.is_active = TRUE IN FirstIndex(methods, M)

FindOrderByReference(ords, ref) ==
    LET M(d) == d.payment_reference = ref IN FirstIndex(ords, M)

\* mutant: the filter is dropped and the first order is found
FindAnyOrder(ords, id) == IF Len(ords) > 0 THEN 1 ELSE 0

FindOrderById(ords, id) ==
    LET M(d) == d._id = id IN FirstIndex(ords, M)

\* the ObjectId insert_one gives a new order: fresh, after every id in use
LastProductId == IF Len(products) = 0 THEN 0 ELSE products[Len(products)]._id

NewOrderId == LastProductId + Len(orders) + 1

UpdateFields(d, ch) == [f \in DOMAIN d |-> IF f \in DOMAIN ch THEN ch[f] ELSE d[f]]

\* mutant: the filter is dropped and every document is updated
UpdateEvery(ords, id, ch) == [j \in 1..Len(ords) |-> UpdateFields(ords[j], ch)]

\* update_one({"_id": id}, {"$set": ch}): the first matching document
UpdateOne(ords, id, ch) ==
    LET i == FindOrderById(ords, id)
    IN  [j \in 1..Len(ords) |-> IF j = i THEN UpdateFields(ords[j], ch) ELSE ords[j]]

\* ------------------------------------------------------------- requests
NoRequest == [op |-> "none"]
NoLocals == [kind |-> "none"]

\* a worker takes a request when it serves none
StartReady(w) == pc[w] = "idle"

\* the handler returns or raises: the response goes out, with the request
\* it answers and the locals the handler held, and the worker is free again
Finish(w, request, locals, response) ==
    /\ pc' = [pc EXCEPT ![w] = "idle"]
    /\ req' = [req EXCEPT ![w] = NoRequest]
    /\ loc' = [loc EXCEPT ![w] = NoLocals]
    /\ out' = [req |-> request, read |-> locals, resp |-> response]

HttpError(code, detail) == [code |-> code, detail |-> detail]

\* ---------------------------------------------------------- create_order
ExternalGateways == {"tripay", "tokopay"}

MockPayUrl(gateway, order_id) == "https://pay.mock/" \o gateway \o "/" \o OidStr(order_id)

\* lines 236-242: the total before rounding
OrderTotal(prod, amount, pm) ==
    LET base == prod.price * amount
    IN  IF pm = 0 THEN TotalNoFee(base)
        ELSE TotalWithFee(base, methods[pm].fee_percent, methods[pm].fee_flat)

\* lines 238-240: pm (an index into methods, 0 for None) stays None without a
\* code or without an active match
ResolveMethod(code) == IF Truthy(code) THEN FindActiveMethod(code) ELSE 0

\* line 255
HasExternalGateway(pm) == pm /= 0 /\ methods[pm].gateway \in ExternalGateways

\* line 246
OrderProvider(body, prod) == PyOr(PyOr(body.provider, prod.provider), "manual")

\* lines 243-250: model_dump() overwritten with the computed fields
OrderPayload(body, prod, total_price, created, updated) ==
    [user_id |-> body.user_id,
     product_id |-> body.product_id,
     amount |-> body.amount,
     target_id |-> body.target_id,
     status |-> "pending",
     provider |-> OrderProvider(body, prod),
     payment_method_code |-> body.payment_method_code,
     payment_reference |-> body.payment_reference,
     payment_url |-> body.payment_url,
     total_price |-> total_price,
     note |-> body.note,
     created_at |-> created,
     updated_at |-> updated]

\* insert_one: the document with its new _id, last in natural order
InsertOne(ords, id, payload) == Append(ords, [f \in DOMAIN payload \cup {"_id"} |->
                                    IF f = "_id" THEN id ELSE payload[f]])

\* lines 233-235: whether the request gets as far as insert_one
CreateInserts(body) ==
    /\ oid(body.product_id).ok
    /\ FindProductById(oid(body.product_id).id) /= 0

CreateRequest(body) == [op |-> "create_order", body |-> body]

\* lines 231-251 and, without an external gateway, 254-259.  drift is the
\* time between the two now() calls of lines 248 and 249.
create_order(w, body, drift) ==
    /\ StartReady(w)
    /\ UNCHANGED <<products, methods>>
    /\ LET p == oid(body.product_id)
       IN  IF ~p.ok
           THEN /\ Finish(w, CreateRequest(body), NoLocals, HttpError(400, "Invalid id"))
                /\ UNCHANGED <<orders, clock>>
           ELSE IF FindProductById(p.id) = 0
           THEN /\ Finish(w, CreateRequest(body), NoLocals, HttpError(404, "Product not found"))
                /\ UNCHANGED <<orders, clock>>
           ELSE LET prod == products[FindProductById(p.id)]
                    pm == ResolveMethod(body.payment_method_code)
                    order_id == NewOrderId
                IN  \E total_price \in Round2(OrderTotal(prod, body.amount, pm)) :
                      /\ orders' = InsertOne(orders, order_id,
                                     OrderPayload(body, prod, total_price, clock, clock + drift))
                      /\ clock' = clock + drift + 1
                      /\ IF HasExternalGateway(pm)
                         THEN /\ pc' = [pc EXCEPT ![w] = "co_url"]
                              /\ req' = [req EXCEPT ![w] = CreateRequest(body)]
                              /\ loc' = [loc EXCEPT ![w] =
                                           [kind |-> "create", order_id |-> order_id,
                                            pay_url |-> MockPayUrl(methods[pm].gateway, order_id),
                                            total_price |-> total_price]]
                              /\ UNCHANGED out
                         ELSE Finish(w, CreateRequest(body),
                                     [kind |-> "create", order_id |-> order_id,
                                      pay_url |-> None, total_price |-> total_price],
                                     [code |-> 200, id |-> OidStr(order_id),
                                      payment_url |-> None, total_price |-> total_price])

\* lines 257-259: the second write, then the response
create_order_set_url(w) ==
    /\ pc[w] = "co_url"
    /\ orders' = UpdateOne(orders, loc[w].order_id, [payment_url |-> loc[w].pay_url])
    /\ Finish(w, req[w], loc[w],
              [code |-> 200, id |-> OidStr(loc[w].order_id),
               payment_url |-> loc[w].pay_url, total_price |-> loc[w].total_price])
    /\ UNCHANGED <<products, methods, clock>>

\* ------------------------------------------------------- payment_webhook
\* mutant: the query string is not consulted
WebhookRefBodyOnly(body, query) == body.reference

\* line 283: payload.reference or request.query_params.get("reference")
WebhookRef(body, query) == PyOr(body.reference, query)

WebhookRequest(body, query) == [op |-> "payment_webhook", body |-> body, query |-> query]

\* the local `order` of lines 286-295: of the document that was looked up,
\* the _id the update goes by and the status it had when it was read
Looked(doc) == [_id |-> doc._id, status |-> doc.status]

\* lines 282-287: the reference, then the lookup by payment_reference
payment_webhook(w, body, query) ==
    /\ StartReady(w)
    /\ UNCHANGED <<products, methods, orders, clock>>
    /\ LET ref == WebhookRef(body, query)
       IN  IF ~Truthy(ref)
           THEN Finish(w, WebhookRequest(body, query), NoLocals,
                       HttpError(400, "Missing reference"))
           ELSE /\ req' = [req EXCEPT ![w] = WebhookRequest(body, query)]
                /\ UNCHANGED out
                /\ IF FindOrderByReference(orders, ref) /= 0
                   THEN /\ pc' = [pc EXCEPT ![w] = "wh_update"]
                        /\ loc' = [loc EXCEPT ![w] = [kind |-> "order", by |-> "reference",
                                     order |-> Looked(orders[FindOrderByReference(orders, ref)])]]
                   ELSE /\ pc' = [pc EXCEPT ![w] = "wh_byid"]
                        /\ loc' = [loc EXCEPT ![w] = [kind |-> "ref", ref |-> ref]]

\* lines 287-294: the fallback lookup by id; oid's 400 is swallowed
payment_webhook_byid(w) ==
    /\ pc[w] = "wh_byid"
    /\ UNCHANGED <<products, methods, orders, clock>>
    /\ LET p == oid(loc[w].ref)
           i == IF p.ok THEN FindOrderById(orders, p.id) ELSE 0
       IN  IF i = 0
           THEN Finish(w, req[w], loc[w], HttpError(404, "Order not found"))
           ELSE /\ pc' = [pc EXCEPT ![w] = "wh_update"]
                /\ loc' = [loc EXCEPT ![w] = [kind |-> "order", by |-> "id",
                             order |-> Looked(orders[i])]]
                /\ UNCHANGED <<req, out>>

\* mutant: the update also uses up the payment reference
WebhookChangesConsumingReference(status, now) ==
    [status |-> status, updated_at |-> now, payment_reference |-> None]

\* line 295: what the update sets
WebhookChanges(status, now) == [status |-> status, updated_at |-> now]

\* mutant: the update is applied only if the status is still the one read
WebhookUpdateIfUnchanged(ords, order, status, now) ==
    IF \E i \in 1..Len(ords) : ords[i]._id = order._id /\ ords[i].status = order.status
    THEN [j \in 1..Len(ords) |->
            IF ords[j]._id = order._id
            THEN [ords[j] EXCEPT !.status = status, !.updated_at = now] ELSE ords[j]]
    ELSE ords

\* line 295: the update, by the _id of the order that was looked up
WebhookUpdate(ords, order, status, now) == UpdateOne(ords, order._id, WebhookChanges(status, now))

\* lines 295-296
payment_webhook_update(w) ==
    /\ pc[w] = "wh_update"
    /\ orders' = WebhookUpdate(orders, loc[w].order, req[w].body.status, clock)
    /\ clock' = clock + 1
    /\ Finish(w, req[w], loc[w], [code |-> 200, ok |-> TRUE])
    /\ UNCHANGED <<products, methods>>

\* the process serving the request dies between two database operations
Crash(w) ==
    /\ pc[w] \in {"co_url", "wh_byid", "wh_update"}
    /\ Finish(w, req[w], loc[w], [code |-> 0, detail |-> "crashed"])
    /\ UNCHANGED <<products, methods, orders, clock>>

\* ----------------------------------------------------------- top_ranking
ProductIdsOf(ords) == {ords[i].product_id : i \in 1..Len(ords)}

\* {"$sum": 1}
OrdersOf(ords, pid) == Cardinality({i \in 1..Len(ords) : ords[i].product_id = pid})

RECURSIVE RevenueUpTo(_, _, _)
RevenueUpTo(ords, pid, n) ==
    IF n = 0 THEN 0
    ELSE RevenueUpTo(ords, pid, n - 1)
           + (IF ords[n].product_id = pid THEN ords[n].total_price ELSE 0)

\* {"$sum": "$total_price"}
RevenueOf(ords, pid) == RevenueUpTo(ords, pid, Len(ords))

\* mutant: the sort is ascending
SortedGroupsAscending(ords) ==
    LET G == {ords[i].product_id : i \in 1..Len(ords)}
        n == Cardinality(G)
        C(pid) == Cardinality({i \in 1..Len(ords) : ords[i].product_id = pid})
    IN  {s \in [1..n -> G] :
           /\ \A i, j \in 1..n : i /= j => s[i] /= s[j]
           /\ \A i, j \in 1..n : i < j => C(s[i]) <= C(s[j])}

\* $group then $sort {"orders": -1}: every order of the groups that the sort
\* key allows (the store orders ties as it pleases)
SortedGroups(ords) ==
    LET G == ProductIdsOf(ords)
        n == Cardinality(G)
    IN  {s \in [1..n -> G] :
           /\ \A i, j \in 1..n : i /= j => s[i] /= s[j]
           /\ \A i, j \in 1..n : i < j => OrdersOf(ords, s[i]) >= OrdersOf(ords, s[j])}

\* $limit
Limit(s, limit) == SubSeq(s, 1, IF limit < Len(s) THEN limit ELSE Len(s))

\* lines 369-375: one output entry; the stored totals are whole cents, so
\* rounding their sum has one outcome
RankingEntry(ords, pid) ==
    LET p == FindProductById(oid(pid).id)
    IN  [product_id |-> pid,
         product_title |-> IF Truthy(pid) /\ p /= 0 THEN products[p].title ELSE None,
         orders |-> OrdersOf(ords, pid),
         revenue |-> CHOOSE v \in Round2(TotalNoFee(RevenueOf(ords, pid))) : TRUE]

\* lines 360-376.  The store rejects a $limit that is not positive, which
\* the handler does not catch.
top_ranking(w, limit) ==
    /\ StartReady(w)
    /\ UNCHANGED <<products, methods, orders, clock>>
    /\ LET request == [op |-> "top_ranking", limit |-> limit]
       IN  IF limit <= 0
           THEN Finish(w, request, NoLocals, HttpError(500, "the limit must be positive"))
           ELSE \E s \in SortedGroups(orders) :
                  LET res == Limit(s, limit)
                  IN  IF \E i \in 1..Len(res) : Truthy(res[i]) /\ ~oid(res[i]).ok
                      THEN Finish(w, request, NoLocals, HttpError(400, "Invalid id"))
                      ELSE Finish(w, request, NoLocals,
                             [code |-> 200,
                              entries |-> [i \in 1..Len(res) |-> RankingEntry(orders, res[i])]])

\* ------------------------------------------------------------- catalogue
FirstProductId == 10

Product(id, title, price, provider) ==
    [_id |-> id, title |-> title, price |-> price, provider |-> provider]

PaymentMethod(code, gateway, fee_percent, fee_flat, is_active) ==
    [code |-> code, gateway |-> gateway, fee_percent |-> fee_percent,
     fee_flat |-> fee_flat, is_active |-> is_active]

Catalogue ==
    << Product(FirstProductId, "Diamonds", Money(100000), "digiflazz"),
       Product(FirstProductId + 1, "Pulsa", 4, None) >>

Methods ==
    << PaymentMethod("QRIS", "tripay", 2, Money(1000), TRUE),
       PaymentMethod("BANK", "manual", 0, Money(2500), TRUE),
       PaymentMethod("OVO", "tokopay", 1, 0, FALSE) >>

FirstOrderId == FirstProductId + Len(Catalogue)

\* ---------------------------------------------------------------- inputs
RECURSIVE UpperOf(_, _)
UpperOf(s, n) ==
    IF n = 0 THEN ""
    ELSE UpperOf(s, n - 1) \o (IF IsHexChar(CharAt(s, n))
                                 THEN UpperDigits[HexVal(CharAt(s, n)) + 1]
                                 ELSE CharAt(s, n))

Upper(s) == UpperOf(s, Len(s))

OrderBody(product_id, amount, code, reference, url, status) ==
    [user_id |-> None, product_id |-> product_id, amount |-> amount, target_id |-> None,
     status |-> status, provider |-> None, payment_method_code |-> code,
     payment_reference |-> reference, payment_url |-> url, total_price |-> 0,
     note |-> None]

WebhookIn(reference, status) == [reference |-> reference, status |-> status]

WebhookStatuses == {"paid", "failed", "pending"}

\* the requests of the concurrent specification: one product, with and
\* without an external gateway, with and without a payment URL in the body
CreateInputs ==
    { OrderBody(OidStr(FirstProductId), 1, "QRIS", None, None, "pending"),
      OrderBody(OidStr(FirstProductId), 1, "QRIS", None, "http://x", "pending"),
      OrderBody(OidStr(FirstProductId), 1, None, None, None, "pending") }

WebhookInputs ==
    {<<WebhookIn(OidStr(FirstOrderId), st), None>> : st \in {"paid", "failed"}}

\* ------------------------------------------------------- specification
NoResponse == [req |-> NoRequest, read |-> NoLocals, resp |-> [code |-> 0]]

Init ==
    /\ products = Catalogue
    /\ methods = Methods
    /\ orders = << >>
    /\ clock = 1
    /\ pc = [w \in Workers |-> "idle"]
    /\ req = [w \in Workers |-> NoRequest]
    /\ loc = [w \in Workers |-> NoLocals]
    /\ out = NoResponse

\* two workers serve requests concurrently
Next ==
    \/ \E w \in Workers, body \in CreateInputs, drift \in {0} :
         /\ CreateInserts(body) => Len(orders) < MaxOrders /\ clock + drift <= MaxClock
         /\ create_order(w, body, drift)
    \/ \E w \in Workers : create_order_set_url(w)
    \/ \E w \in Workers, in \in WebhookInputs : payment_webhook(w, in[1], in[2])
    \/ \E w \in Workers : payment_webhook_byid(w)
    \/ \E w \in Workers : clock <= MaxClock /\ payment_webhook_update(w)
    \/ \E w \in Workers : Crash(w)

Spec == Init /\ [][Next]_vars

\* ------------------------------------------- sequential specification
\* one worker serves one request after the other, over the whole range of
\* product ids, payment methods, references and statuses
SecondOrderId == FirstOrderId + 1

UnknownProductId == FirstProductId - 1

SeqCreateInputs ==
    {OrderBody(OidStr(FirstProductId), 1, c, None, None, "pending") :
       c \in {None, "QRIS"}}
      \cup {OrderBody(OidStr(FirstProductId), 1, None, r, None, "pending") :
              r \in {OidStr(FirstOrderId), "INV-1"}}
      \cup {OrderBody(Upper(OidStr(FirstProductId)), 1, None, None, "http://x", "success")}
      \cup {OrderBody(p, 1, None, None, None, "pending") :
              p \in {"X", "", OidStr(UnknownProductId), OidStr(FirstOrderId)}}

SeqWebhookInputs ==
    {<<WebhookIn(OidStr(FirstOrderId), st), None>> : st \in WebhookStatuses}
      \cup {<<WebhookIn(b, "paid"), None>> :
              b \in {None, "", "abc123", "INV-1", OidStr(FirstProductId), OidStr(SecondOrderId)}}
      \cup {<<WebhookIn(b, "failed"), OidStr(FirstOrderId)>> : b \in {None, "", "abc123"}}

SeqWorker == CHOOSE w \in Workers : \A v \in Workers : w <= v

NextSeq ==
    \/ \E body \in SeqCreateInputs :
         /\ CreateInserts(body) => Len(orders) < MaxSeqOrders /\ clock <= MaxSeqClock
         /\ create_order(SeqWorker, body, 0)
    \/ create_order_set_url(SeqWorker)
    \/ \E in \in SeqWebhookInputs : payment_webhook(SeqWorker, in[1], in[2])
    \/ payment_webhook_byid(SeqWorker)
    \/ clock <= MaxSeqClock /\ payment_webhook_update(SeqWorker)

SeqSpec == Init /\ [][NextSeq]_vars

\* ---------------------------------------------- pricing specification
\* create_order over a range of prices, amounts and fee schedules
PriceInputs == {0, 4, 5, 1250, Money(100000)}
FeePercentInputs == {0, 1, 2}
FeeFlatInputs == {0, 3, Money(1000)}

InitPrice ==
    /\ products \in {<<Product(FirstProductId, "Diamonds", price, None)>> : price \in PriceInputs}
    /\ methods \in {<<PaymentMethod("QRIS", g, f, c, a)>> :
                      g \in {"tripay", "manual"}, f \in FeePercentInputs,
                      c \in FeeFlatInputs, a \in BOOLEAN}
    /\ orders = << >>
    /\ clock = 1
    /\ pc = [w \in Workers |-> "idle"]
    /\ req = [w \in Workers |-> NoRequest]
    /\ loc = [w \in Workers |-> NoLocals]
    /\ out = NoResponse

PriceCreateInputs ==
    {OrderBody(OidStr(FirstProductId), n, c, None, None, "pending") :
       n \in 1..MaxAmount, c \in {None, "", "QRIS", "DANA"}}

NextPrice ==
    \/ \E body \in PriceCreateInputs, drift \in {0, 1} :
         /\ Len(orders) < MaxPricedOrders
         /\ create_order(SeqWorker, body, drift)
    \/ create_order_set_url(SeqWorker)

PriceSpec == InitPrice /\ [][NextPrice]_vars

\* ---------------------------------------------- ranking specification
\* orders of two products, one of them paid at some point, and top_ranking
RankCreateInputs ==
    {OrderBody(OidStr(p), 1, None, None, None, "pending") :
       p \in {FirstProductId, FirstProductId + 1}}

RankWebhookInputs == {<<WebhookIn(OidStr(FirstOrderId), "paid"), None>>}

LimitInputs == 0..MaxLimit

\* the webhook updates so far: every write takes one tick of the clock
UpdatesSoFar == clock - 1 - Len(orders)

NextRank ==
    \/ \E body \in RankCreateInputs :
         /\ Len(orders) < MaxRankOrders
         /\ create_order(SeqWorker, body, 0)
    \/ \E in \in RankWebhookInputs :
         /\ UpdatesSoFar < MaxRankUpdates
         /\ payment_webhook(SeqWorker, in[1], in[2])
    \/ payment_webhook_byid(SeqWorker)
    \/ payment_webhook_update(SeqWorker)
    \/ \E limit \in LimitInputs : top_ranking(SeqWorker, limit)

RankSpec == Init /\ [][NextRank]_vars

\* ================================================================ claims
MutableFields == {"status", "payment_url", "updated_at"}

\* the documents agree on every field but those of `fields`
SameExcept(d, e, fields) ==
    /\ DOMAIN d = DOMAIN e
    /\ \A f \in DOMAIN d \ fields : d[f] = e[f]

\* worker w applies the update of a webhook delivery in this step
WebhookUpdateStep(w) == pc[w] = "wh_update" /\ pc'[w] = "idle" /\ out'.resp.code /= 0

\* the state machine of Order.status
StatusMachine(from, to) ==
    \/ from = "pending" /\ to \in {"paid", "failed", "processing"}
    \/ from \in {"paid", "failed", "processing"} /\ to \in {"success", "refunded"}

\* C1: every order is inserted with status pending, and every later change
\* of an order's status is a transition of the state machine
\* pending -> {paid, failed, processing} -> {success, refunded}.
C1_StatusMachine ==
    [][\A i \in 1..Len(orders') :
         IF i > Len(orders) THEN orders'[i].status = "pending"
         ELSE \/ orders'[i].status = orders[i].status
              \/ StatusMachine(orders[i].status, orders'[i].status)]_vars

\* C2: an inserted order changes in status, payment_url and updated_at only
\* (total_price stays as computed at creation), orders are never removed,
\* and a webhook update changes status and updated_at of the one order it
\* looked up and nothing of any other order.
C2_Frame ==
    [][/\ Len(orders') >= Len(orders)
       /\ \A i \in 1..Len(orders) : SameExcept(orders[i], orders'[i], MutableFields)
       /\ \A w \in Workers :
            WebhookUpdateStep(w) =>
              /\ Len(orders') = Len(orders)
              /\ \A i \in 1..Len(orders) :
                   IF orders[i]._id = loc[w].order._id
                   THEN SameExcept(orders[i], orders'[i], {"status", "updated_at"})
                   ELSE orders'[i] = orders[i]]_vars

\* C2 witness: two orders, one with the payment URL of the second write, and
\* a webhook has just changed the status of one of them
C2_Witness ==
    /\ Len(orders) = 2
    /\ out.req.op = "payment_webhook" /\ out.resp.code = 200
    /\ \E i \in 1..2 : orders[i].status /= "pending" /\ orders[i].updated_at > orders[i].created_at
    /\ \E i \in 1..2 : orders[i].payment_url = MockPayUrl("tripay", orders[i]._id)

\* C5: the update of a webhook delivery is applied whatever the order's
\* status has become since the delivery looked it up: the delivery succeeds,
\* the order it looked up gets the delivery's status and the time of the
\* update, and no other field and no other order changes.  So after
\* concurrent deliveries the status is that of the update applied last.
C5_LastWriteWins ==
    [][\A w \in Workers :
         WebhookUpdateStep(w) =>
           /\ out'.resp.code = 200
           /\ Len(orders') = Len(orders)
           /\ \A i \in 1..Len(orders) :
                IF orders[i]._id = loc[w].order._id
                THEN /\ orders'[i].status = req[w].body.status
                     /\ orders'[i].updated_at = clock
                     /\ SameExcept(orders[i], orders'[i], {"status", "updated_at"})
                ELSE orders'[i] = orders[i]]_vars

\* C5 witness: the store holds one order, created at 1; the delivery that
\* was answered last found it pending and set it failed at 3.  The write at
\* 2 was the other delivery's (there is no second order), and it left the
\* order paid or failed, so it came after this delivery's lookup: the two
\* deliveries ran interleaved and the later update won.
C5_Witness ==
    /\ Len(orders) = 1
    /\ out.req.op = "payment_webhook" /\ out.resp.code = 200
    /\ out.read.order._id = orders[1]._id
    /\ out.read.order.status = "pending"
    /\ out.req.body.status = "failed"
    /\ orders[1].status = "failed"
    /\ orders[1].updated_at = orders[1].created_at + 2

\* C10: between the two writes of create_order the order is stored with
\* status pending and no payment URL.
C10_BetweenWrites ==
    \A w \in Workers :
      pc[w] = "co_url" =>
        \A i \in 1..Len(orders) :
          orders[i]._id = loc[w].order_id =>
            orders[i].status = "pending" /\ orders[i].payment_url = None

\* ---------------------------------------------------------------- C3
\* the string is the id of a stored product
IdentifiesProduct(pid) ==
    /\ ObjectIdIsValid(pid)
    /\ \E i \in 1..Len(products) : products[i]._id = ObjectId(pid)

\* a create_order call is answered in this step
CreateAnswered == out' /= out /\ out'.req.op = "create_order"

\* C3 as stated: create_order with a productId that identifies no stored
\* product, "X" included, is answered NotFound.
C3_AlwaysNotFound ==
    (out.req.op = "create_order" /\ ~IdentifiesProduct(out.req.body.product_id))
      => out.resp.code = 404

\* C3 amended: create_order with a productId that identifies no stored
\* product fails, with NotFound when the id is well-formed and with
\* BadRequest when it is malformed, and leaves the order collection as it
\* was.
C3_UnknownProductFails ==
    [][(CreateAnswered /\ ~IdentifiesProduct(out'.req.body.product_id)) =>
         /\ orders' = orders
         /\ out'.resp.code = IF ObjectIdIsValid(out'.req.body.product_id) THEN 404 ELSE 400]_vars

\* C3 witness: "X" was answered 400 Invalid id while the store holds orders
C3_Witness ==
    /\ out.req.op = "create_order"
    /\ out.req.body.product_id = "X"
    /\ out.resp = HttpError(400, "Invalid id")
    /\ Len(orders) >= 1

\* ---------------------------------------------------------------- C4
\* the order a delivery that succeeded looked up
Matched(ords, o) == ords[FindOrderById(ords, o.read.order._id)]

\* a worker answers the very request that was answered last, successfully
RepeatedDelivery(w) ==
    /\ pc[w] /= "idle" /\ pc'[w] = "idle"
    /\ req[w].op = "payment_webhook"
    /\ out.req = req[w]
    /\ out.resp.code = 200

\* C4: a webhook delivered again right after it succeeded succeeds again,
\* looks up the same order, leaves its status as the first delivery set it,
\* and changes nothing in the store but that order's updated_at.
C4_Idempotent ==
    [][\A w \in Workers :
         RepeatedDelivery(w) =>
           /\ out'.resp.code = 200
           /\ out'.read.order._id = out.read.order._id
           /\ Matched(orders', out').status = Matched(orders, out).status
           /\ Matched(orders', out').status = req[w].body.status
           /\ Len(orders') = Len(orders)
           /\ \A i \in 1..Len(orders) :
                IF orders[i]._id = out.read.order._id
                THEN SameExcept(orders[i], orders'[i], {"updated_at"})
                ELSE orders'[i] = orders[i]]_vars

\* C4 witness: the delivery answered last found its order already in the
\* status it carries, which only this delivery sets, and succeeded again
C4_Witness ==
    /\ out.req = WebhookRequest(WebhookIn(OidStr(FirstOrderId), "paid"), None)
    /\ out.resp.code = 200
    /\ out.read.order.status = "paid"
    /\ Matched(orders, out).status = "paid"
    /\ Matched(orders, out).updated_at = Matched(orders, out).created_at + 2

\* ---------------------------------------------------------------- C7
ReferenceOf(request) == WebhookRef(request.body, request.query)

HasReference(ords, ref) == \E i \in 1..Len(ords) : ords[i].payment_reference = ref

IdentifiesOrder(ords, ref) ==
    /\ ObjectIdIsValid(ref)
    /\ \E i \in 1..Len(ords) : ords[i]._id = ObjectId(ref)

\* C7: a webhook whose reference is no order's payment_reference and no
\* stored order's id, well-formed or not, is answered NotFound and changes
\* no order; an order whose payment_reference is the reference is taken
\* before an order whose id it is, and the first such order.
C7_NotFound ==
    [][\A w \in Workers :
         /\ (pc[w] /= "idle" /\ pc'[w] = "idle" /\ req[w].op = "payment_webhook"
               /\ ~HasReference(orders, ReferenceOf(req[w]))
               /\ ~IdentifiesOrder(orders, ReferenceOf(req[w])))
              => out'.resp = HttpError(404, "Order not found") /\ orders' = orders
         /\ (pc[w] = "idle" /\ pc'[w] /= "idle" /\ req'[w].op = "payment_webhook")
              => IF HasReference(orders, ReferenceOf(req'[w]))
                 THEN /\ pc'[w] = "wh_update"
                      /\ \E i \in 1..Len(orders) :
                           /\ orders[i].payment_reference = ReferenceOf(req'[w])
                           /\ \A j \in 1..(i - 1) :
                                orders[j].payment_reference /= ReferenceOf(req'[w])
                           /\ loc'[w].order._id = orders[i]._id
                 ELSE pc'[w] = "wh_byid"
         /\ (pc[w] = "wh_byid" /\ pc'[w] = "wh_update")
              => /\ IdentifiesOrder(orders, ReferenceOf(req[w]))
                 /\ loc'[w].order._id = ObjectId(ReferenceOf(req[w]))]_vars

\* C7 witness: "abc123", no payment_reference and no well-formed id, was
\* answered NotFound while the store holds orders
C7_Witness ==
    /\ out.req.op = "payment_webhook"
    /\ out.req.body.reference = "abc123"
    /\ ~Truthy(out.req.query)
    /\ out.resp = HttpError(404, "Order not found")
    /\ Len(orders) >= 1

\* ---------------------------------------------------------------- C8
WebhookAnswered == out' /= out /\ out'.req.op = "payment_webhook"

\* C8: a webhook with no reference in the body and none in the query string
\* is answered BadRequest in its first step, before any lookup, and changes
\* no order; with a reference in the query string only, that reference is
\* the one the lookups use.
C8_MissingReference ==
    [][/\ (WebhookAnswered /\ ~Truthy(out'.req.body.reference) /\ ~Truthy(out'.req.query))
            => /\ out'.resp = HttpError(400, "Missing reference")
               /\ out'.read = NoLocals
               /\ \A w \in Workers : pc[w] = "idle"
               /\ orders' = orders
       /\ (WebhookAnswered /\ ~Truthy(out'.req.body.reference) /\ Truthy(out'.req.query))
            => /\ out'.resp.code /= 400
               /\ out'.resp.code = 200 =>
                    \/ Matched(orders, out').payment_reference = out'.req.query
                    \/ OidStr(Matched(orders, out')._id) = out'.req.query]_vars

\* C8 witness: a webhook without any reference was answered 400 while the
\* store holds an order it could have matched
C8_Witness ==
    /\ out.req.op = "payment_webhook"
    /\ ~Truthy(out.req.body.reference) /\ ~Truthy(out.req.query)
    /\ out.resp = HttpError(400, "Missing reference")
    /\ Len(orders) >= 1

\* ---------------------------------------------------------------- C6
\* t is a whole number of cents and lies within half a cent of
\* base + base * fee_percent / 100 + fee_flat
NearestCent(t, base, fee_percent, fee_flat) ==
    LET e == 100 * (t - base - fee_flat) - base * fee_percent
        half == 50 * MillsPerCent
    IN  t % MillsPerCent = 0 /\ -half <= e /\ e <= half

\* the base of a stored order and the fee schedule that applies to it
BaseOf(order) == products[1].price * order.amount

ActiveMethods(code) == {i \in 1..Len(methods) : methods[i].code = code /\ methods[i].is_active}

FeePercentOf(order) ==
    IF order.payment_method_code \in {None, ""} \/ ActiveMethods(order.payment_method_code) = {}
    THEN 0 ELSE methods[CHOOSE i \in ActiveMethods(order.payment_method_code) : TRUE].fee_percent

FeeFlatOf(order) ==
    IF order.payment_method_code \in {None, ""} \/ ActiveMethods(order.payment_method_code) = {}
    THEN 0 ELSE methods[CHOOSE i \in ActiveMethods(order.payment_method_code) : TRUE].fee_flat

\* C6 as stated, in its last part: the total of a stored order is never
\* below its base.
C6_TotalAtLeastBase ==
    \A i \in 1..Len(orders) : orders[i].total_price >= BaseOf(orders[i])

\* C6 amended: the stored total is round(base + base * fee_percent / 100 +
\* fee_flat, 2) under the fee schedule of the active method the code names,
\* and round(base, 2) without a code or an active match; the response
\* carries the stored total; the total is never more than half a cent below
\* the base, and never below a base that is a whole number of cents.
C6_Total ==
    /\ \A i \in 1..Len(orders) :
         /\ NearestCent(orders[i].total_price, BaseOf(orders[i]),
                        FeePercentOf(orders[i]), FeeFlatOf(orders[i]))
         /\ 2 * (BaseOf(orders[i]) - orders[i].total_price) <= MillsPerCent
         /\ BaseOf(orders[i]) % MillsPerCent = 0 => orders[i].total_price >= BaseOf(orders[i])
    /\ (out.req.op = "create_order" /\ out.resp.code = 200) =>
         \E i \in 1..Len(orders) :
           /\ OidStr(orders[i]._id) = out.resp.id
           /\ orders[i].total_price = out.resp.total_price

\* C6 witness: price 100000, amount 2, fee 2% + 1000: total 205000
C6_Witness ==
    /\ products[1].price = Money(100000)
    /\ methods[1] = PaymentMethod("QRIS", "tripay", 2, Money(1000), TRUE)
    /\ Len(orders) = 1
    /\ orders[1].amount = 2
    /\ orders[1].payment_method_code = "QRIS"
    /\ orders[1].total_price = Money(205000)
    /\ out.resp.code = 200 /\ out.resp.total_price = Money(205000)

\* ---------------------------------------------------------------- C9
RankingAnswered == out' /= out /\ out'.req.op = "top_ranking"

NumberOfOrders(ords, pid) == Cardinality({i \in 1..Len(ords) : ords[i].product_id = pid})

\* C9: top_ranking(limit) changes no stored record, and what it returns has
\* at most limit entries, one per distinct product_id, each with the number
\* of stored orders of that product_id whatever their status, in descending
\* order of that number, and no product left out has more orders than one
\* returned.
C9_TopRanking ==
    [][RankingAnswered =>
         /\ orders' = orders /\ products' = products /\ methods' = methods
         /\ out'.req.limit >= 1 => out'.resp.code = 200
         /\ out'.resp.code = 200 =>
              LET e == out'.resp.entries
                  returned == {e[i].product_id : i \in 1..Len(e)}
                  stored == {orders[i].product_id : i \in 1..Len(orders)}
              IN  /\ Len(e) <= out'.req.limit
                  /\ Len(e) = out'.req.limit \/ returned = stored
                  /\ returned \subseteq stored
                  /\ \A i, j \in 1..Len(e) : i /= j => e[i].product_id /= e[j].product_id
                  /\ \A i \in 1..Len(e) : e[i].orders = NumberOfOrders(orders, e[i].product_id)
                  /\ \A i, j \in 1..Len(e) : i < j => e[i].orders >= e[j].orders
                  /\ \A i \in 1..Len(e) : \A pid \in stored \ returned :
                       e[i].orders >= NumberOfOrders(orders, pid)]_vars

\* C9 witness: 3 orders of one product, 5 of the other, one of them paid;
\* top_ranking(1) returned the product with 5 alone
C9_Witness ==
    /\ out.req.op = "top_ranking" /\ out.req.limit = 1 /\ out.resp.code = 200
    /\ NumberOfOrders(orders, OidStr(FirstProductId)) = 3
    /\ NumberOfOrders(orders, OidStr(FirstProductId + 1)) = 5
    /\ \E i \in 1..Len(orders) : orders[i].status = "paid"
    /\ Len(out.resp.entries) = 1
    /\ out.resp.entries[1].product_id = OidStr(FirstProductId + 1)
    /\ out.resp.entries[1].orders = 5

====
